---- MODULE Spec2Model ----
(***************************************************************************)
(* Model of init-scripts/download_covid_news.py: the NewsTextExtractor     *)
(* class (field resolvers, archive decomposition, text normalizer, the     *)
(* per-period extraction and the file writer) and the batch driver main(). *)
(*                                                                         *)
(* Text is a sequence of one-character strings.  A lookup that yields no   *)
(* element (Python None) is the one-element sequence <<"None">>, which is  *)
(* not a text.                                                             *)
(***************************************************************************)
EXTENDS Integers, Sequences, FiniteSets, TLC

VARIABLES
    \* _extract_articles_from_archive
    soup,            \* the parsed archive page: its <article> elements in document order
    articles_text,   \* the list of strings the method has appended
    apc,             \* "start" | "done"
    \* _clean_text
    raw,             \* the text handed to _clean_text
    cleaned,         \* _clean_text(raw)
    recleaned,       \* _clean_text(_clean_text(raw))
    cpc,             \* "start" | "once" | "twice"
    \* _extract_title / _extract_author
    page,            \* the parsed page: its elements in document order
    title_res,       \* value returned by _extract_title
    author_res,      \* value returned by _extract_author
    rpc,             \* "start" | "title" | "author"
    \* main
    year, month,     \* loop variables of main
    pc,              \* position of main inside the loop body
    response,        \* what the fetch and parse steps did for the current period
    article,         \* the dict returned by extract_from_unam_global
    successful_extractions,
    failed_extractions,
    total_articles,
    period_file,     \* the file at the current period's path ../data/text/{month}_{year}.txt
    sleeps,          \* number of time.sleep(1) calls taken
    visited          \* periods for which the loop body has been entered, in order

archiveVars  == <<soup, articles_text, apc>>
cleanVars    == <<raw, cleaned, recleaned, cpc>>
resolverVars == <<page, title_res, author_res, rpc>>
mainVars     == <<year, month, pc, response, article, successful_extractions,
                  failed_extractions, total_articles, period_file, sleeps, visited>>
vars == <<archiveVars, cleanVars, resolverVars, mainVars>>

(***************************************************************************)
(* Bounds of the model                                                     *)
(***************************************************************************)
MaxArticles  == 3    \* <article> elements in an archive page
MaxFragments == 3    \* fragments concatenated into a raw text
MaxElements  == 2    \* elements in a page handed to the field resolvers

(***************************************************************************)
(* Text helpers: Python str methods                                        *)
(***************************************************************************)
None == <<"None">>

\* main: no file at the period's path, no dict bound to article, no request made yet
NoFile == [name |-> <<0, 0>>, error_line |-> "", content |-> <<>>]

Unbound == [unbound |-> TRUE]

NoResponse == [kind |-> "none", soup |-> <<>>]

Whitespace == {" ", "\n", "\t"}

IsSpace(c) == c \in Whitespace

RECURSIVE LStrip(_)
LStrip(t) == IF t # <<>> /\ IsSpace(Head(t)) THEN LStrip(Tail(t)) ELSE t

RECURSIVE RStrip(_)
RStrip(t) ==
    IF t # <<>> /\ IsSpace(t[Len(t)]) THEN RStrip(SubSeq(t, 1, Len(t) - 1)) ELSE t

\* str.strip()
Strip(t) == RStrip(LStrip(t))

\* len(str.split()): the number of maximal runs of non-whitespace characters
SplitLen(t) ==
    Cardinality({p \in 1..Len(t) :
                    /\ ~IsSpace(t[p])
                    /\ (p = 1 \/ IsSpace(t[p - 1]))})

(***************************************************************************)
(* _extract_articles_from_archive                                          *)
(*                                                                         *)
(* An <article> element is a record of what its five fixed lookups yield:  *)
(* None when the lookup finds no element, else the element's get_text().   *)
(* An appended string is a record: its kind, the index and the text that   *)
(* the f-string interpolates.                                              *)
(***************************************************************************)
Titles   == {None, <<" ">>, <<" ", "N", "o", "t", "a">>}
Contents == {None, <<"\n">>, <<"t", "e", "x", "t", "o", " ", "d", "o", "s">>}
Metas    == {[author |-> None, date |-> <<"3", " ", "m", "a", "y">>, cats |-> None],
             [author |-> <<"A", "n", "a", " ">>, date |-> None, cats |-> <<"S", "a", "l", "u", "d">>]}

Containers ==
    {[title |-> t, author |-> m.author, date |-> m.date, cats |-> m.cats, content |-> c] :
        t \in Titles, m \in Metas, c \in Contents}

SeqsUpTo(S, n) == UNION {[1..k -> S] : k \in 0..n}

Piece(kind, i, text) == [kind |-> kind, i |-> i, text |-> text]

\* ArticleBlock with the title gate after the closing separator: an <article>
\* without a title still appends its separator
ArticleBlock_LateGate(i, art) ==
    IF art.title = None
    THEN <<Piece("separator", 0, <<>>)>>
    ELSE <<Piece("marker", i, Strip(art.title))>>
         \o (IF art.author # None THEN <<Piece("author", 0, Strip(art.author))>> ELSE <<>>)
         \o (IF art.date # None THEN <<Piece("date", 0, Strip(art.date))>> ELSE <<>>)
         \o (IF art.cats # None THEN <<Piece("cats", 0, Strip(art.cats))>> ELSE <<>>)
         \o <<Piece("content_marker", 0, <<>>)>>
         \o (IF art.content # None THEN <<Piece("content", 0, Strip(art.content))>> ELSE <<>>)
         \o <<Piece("separator", 0, <<>>)>>

\* the strings appended for one <article>, the body of the for loop
ArticleBlock(i, art) ==
    IF art.title = None
    THEN <<>>                                               \* continue
    ELSE <<Piece("marker", i, Strip(art.title))>>
         \o (IF art.author # None THEN <<Piece("author", 0, Strip(art.author))>> ELSE <<>>)
         \o (IF art.date # None THEN <<Piece("date", 0, Strip(art.date))>> ELSE <<>>)
         \o (IF art.cats # None THEN <<Piece("cats", 0, Strip(art.cats))>> ELSE <<>>)
         \o <<Piece("content_marker", 0, <<>>)>>
         \o (IF art.content # None THEN <<Piece("content", 0, Strip(art.content))>> ELSE <<>>)
         \o <<Piece("separator", 0, <<>>)>>

\* for i, article in enumerate(articles, 1): the iterations from i on
RECURSIVE ArchiveLoop(_, _)
ArchiveLoop(articles, i) ==
    IF i > Len(articles) THEN <<>>
    ELSE ArticleBlock(i, articles[i]) \o ArchiveLoop(articles, i + 1)

\* the list whose "\n".join the method returns
_extract_articles_from_archive(s) == ArchiveLoop(s, 1)

\* operations of the caller on the joined string, read off the list
\* str.strip() is non-empty: every block holds a marker, which has non-blank characters
JoinedNonBlank(pieces) == pieces # <<>>

\* len(piece.split()) of one rendered piece
PieceWords(p) ==
    CASE p.kind = "marker"         -> 4 + SplitLen(p.text)  \* === ARTICULO i: title ===
      [] p.kind = "author"         -> 1 + SplitLen(p.text)
      [] p.kind = "date"           -> 1 + SplitLen(p.text)
      [] p.kind = "cats"           -> 1 + SplitLen(p.text)
      [] p.kind = "content_marker" -> 3                     \* --- CONTENIDO ---
      [] p.kind = "content"        -> SplitLen(p.text)
      [] p.kind = "separator"      -> 1                     \* "=" * 80

RECURSIVE JoinedWords(_)
JoinedWords(pieces) ==
    IF pieces = <<>> THEN 0 ELSE PieceWords(Head(pieces)) + JoinedWords(Tail(pieces))

\* content.count('=== ARTICULO')
CountMarkers(pieces) == Cardinality({k \in 1..Len(pieces) : pieces[k].kind = "marker"})

\* the archive page is parsed; the other operations are not in use
InitArchive ==
    /\ soup \in SeqsUpTo(Containers, MaxArticles)
    /\ articles_text = <<>>
    /\ apc = "start"
    /\ raw = <<>>
    /\ cleaned = <<>>
    /\ recleaned = <<>>
    /\ cpc = "idle"
    /\ page = <<>>
    /\ title_res = <<>>
    /\ author_res = <<>>
    /\ rpc = "idle"
    /\ year = 0
    /\ month = 0
    /\ pc = "idle"
    /\ response = NoResponse
    /\ article = Unbound
    /\ successful_extractions = 0
    /\ failed_extractions = 0
    /\ total_articles = 0
    /\ period_file = NoFile
    /\ sleeps = 0
    /\ visited = <<>>

Decompose ==
    /\ apc = "start"
    /\ articles_text' = _extract_articles_from_archive(soup)
    /\ apc' = "done"
    /\ UNCHANGED <<soup, cleanVars, resolverVars, mainVars>>

NextArchive == Decompose

(***************************************************************************)
(* Regular expressions of _clean_text                                      *)
(*                                                                         *)
(* A pattern is a record; Match(pat, t, p) is the index just past the      *)
(* match of pat that starts at position p of t, or 0 when pat does not     *)
(* match at p.  No pattern of _clean_text matches the empty string.        *)
(***************************************************************************)
Pat(kind, a, b) == [kind |-> kind, a |-> a, b |-> b]

Lit(a)          == Pat("lit", a, <<>>)           \* a literal
ToEol(a)        == Pat("toeol", a, <<>>)         \* a.*?$  with re.MULTILINE, with or without re.DOTALL
TwoToEol(a, b)  == Pat("two", a, b)              \* a.*?b.*?$  with re.MULTILINE
TwoDotAll(a, b) == Pat("twodotall", a, b)        \* a.*?b.*?$  with re.MULTILINE | re.DOTALL
WsRun           == Pat("ws", <<>>, <<>>)         \* \s+
SpanOpen        == Pat("span", <<>>, <<>>)       \* <span lang="[^"]*">
EmptySpanPara   == Pat("pspan", <<>>, <<>>)      \* <p><span lang="[^"]*">\s*</span></p>
EmptyPara       == Pat("p", <<>>, <<>>)          \* <p>\s*</p>
BlankLines      == Pat("blank", <<>>, <<>>)      \* \n\s*\n
LineTrim        == Pat("trim", <<>>, <<>>)       \* ^\s+|\s+$  with re.MULTILINE

StartsAt(t, p, a) ==
    /\ p + Len(a) - 1 <= Len(t)
    /\ SubSeq(t, p, p + Len(a) - 1) = a

Min(S) == CHOOSE x \in S : \A y \in S : x <= y
Max(S) == CHOOSE x \in S : \A y \in S : x >= y

\* the first position from q on where $ matches under re.MULTILINE
Eol(t, q) == Min({e \in q..(Len(t) + 1) : e = Len(t) + 1 \/ t[e] = "\n"})

\* the index just past the run of whitespace that starts at q (q itself when there is none)
WsEnd(t, q) == Min({e \in q..(Len(t) + 1) : e = Len(t) + 1 \/ ~IsSpace(t[e])})

\* the first position in q..limit where a starts, or 0
Find(t, a, q, limit) ==
    LET hits == {r \in q..limit : StartsAt(t, r, a)}
    IN  IF hits = {} THEN 0 ELSE Min(hits)

SpanPrefix == <<"<", "s", "p", "a", "n", " ", "l", "a", "n", "g", "=", "\"">>

MatchSpan(t, p) ==
    IF ~StartsAt(t, p, SpanPrefix) THEN 0
    ELSE LET k == Find(t, <<"\"">>, p + Len(SpanPrefix), Len(t))
         IN  IF k # 0 /\ StartsAt(t, k, <<"\"", ">">>) THEN k + 2 ELSE 0

Match(pat, t, p) ==
    CASE pat.kind = "lit" ->
            IF StartsAt(t, p, pat.a) THEN p + Len(pat.a) ELSE 0
      [] pat.kind = "toeol" ->
            IF StartsAt(t, p, pat.a) THEN Eol(t, p + Len(pat.a)) ELSE 0
      [] pat.kind = "two" ->
            IF ~StartsAt(t, p, pat.a) THEN 0
            ELSE LET from == p + Len(pat.a)
                     r == Find(t, pat.b, from, Eol(t, from))
                 IN  IF r = 0 THEN 0 ELSE Eol(t, r + Len(pat.b))
      [] pat.kind = "twodotall" ->
            IF ~StartsAt(t, p, pat.a) THEN 0
            ELSE LET r == Find(t, pat.b, p + Len(pat.a), Len(t))
                 IN  IF r = 0 THEN 0 ELSE Eol(t, r + Len(pat.b))
      [] pat.kind = "ws" ->
            IF IsSpace(t[p]) THEN WsEnd(t, p) ELSE 0
      [] pat.kind = "span" -> MatchSpan(t, p)
      [] pat.kind = "pspan" ->
            IF ~StartsAt(t, p, <<"<", "p", ">">>) THEN 0
            ELSE LET e == MatchSpan(t, p + 3)
                 IN  IF e = 0 THEN 0
                     ELSE LET w == WsEnd(t, e)
                              close == <<"<", "/", "s", "p", "a", "n", ">", "<", "/", "p", ">">>
                          IN  IF StartsAt(t, w, close) THEN w + Len(close) ELSE 0
      [] pat.kind = "p" ->
            IF ~StartsAt(t, p, <<"<", "p", ">">>) THEN 0
            ELSE LET w == WsEnd(t, p + 3)
                 IN  IF StartsAt(t, w, <<"<", "/", "p", ">">>) THEN w + 4 ELSE 0
      [] pat.kind = "blank" ->
            \* \s* is greedy: the match ends just past the last newline of the run
            IF t[p] # "\n" THEN 0
            ELSE LET nl == {q \in (p + 1)..(WsEnd(t, p) - 1) : t[q] = "\n"}
                 IN  IF nl = {} THEN 0 ELSE Max(nl) + 1
      [] pat.kind = "trim" ->
            IF ~IsSpace(t[p]) THEN 0
            ELSE IF p = 1 \/ t[p - 1] = "\n" THEN WsEnd(t, p)      \* ^\s+
            ELSE IF WsEnd(t, p) = Len(t) + 1 THEN Len(t) + 1        \* \s+$ at the end
            ELSE LET nl == {q \in (p + 1)..(WsEnd(t, p) - 1) : t[q] = "\n"}
                 IN  IF nl = {} THEN 0 ELSE Max(nl)                 \* \s+$ before a newline

\* re.sub(pat, repl, t) from position p on: the leftmost match at or after p is
\* replaced and the scan resumes just past it; str.replace is re.sub of a literal
RECURSIVE ReSubFrom(_, _, _, _)
ReSubFrom(pat, repl, t, p) ==
    LET hits == {q \in p..Len(t) : Match(pat, t, q) # 0}
    IN  IF hits = {} THEN SubSeq(t, p, Len(t))
        ELSE LET q == Min(hits)
             IN  SubSeq(t, p, q - 1) \o repl \o ReSubFrom(pat, repl, t, Match(pat, t, q))

ReSub(pat, repl, t) == ReSubFrom(pat, repl, t, 1)

Rule(pat, repl) == [pat |-> pat, repl |-> repl]

(***************************************************************************)
(* _clean_text: the replacements in the order the method applies them      *)
(***************************************************************************)
CleanRules ==
    <<
       Rule(Lit(<<"&", "n", "b", "s", "p", ";">>), <<" ">>),
       Rule(Lit(<<"&", "a", "m", "p", ";">>), <<"&">>),
       Rule(Lit(<<"&", "l", "t", ";">>), <<"<">>),
       Rule(Lit(<<"&", "g", "t", ";">>), <<">">>),
       Rule(Lit(<<"&", "q", "u", "o", "t", ";">>), <<"\"">>),
       Rule(Lit(<<"&", "#", "8", "2", "1", "7", ";">>), <<"'">>),
       Rule(Lit(<<"&", "#", "8", "2", "2", "0", ";">>), <<"\"">>),
       Rule(Lit(<<"&", "#", "8", "2", "2", "1", ";">>), <<"\"">>),
       Rule(Lit(<<"&", "#", "8", "2", "3", "0", ";">>), <<".", ".", ".">>),
       Rule(WsRun, <<" ">>),
       Rule(Lit(<<"S", "h", "a", "r", "e", " ", "t", "h", "i", "s", ":">>), <<>>),
       Rule(Lit(<<"L", "i", "k", "e", " ", "t", "h", "i", "s", ":">>), <<>>),
       Rule(TwoDotAll(<<"P", "o", "s", "t", "e", "d", " ", "i", "n">>, <<"T", "a", "g", "g", "e", "d">>), <<>>),
       Rule(ToEol(<<"P", "o", "s", "t", "e", "d", " ", "i", "n">>), <<>>),
       Rule(ToEol(<<"T", "a", "g", "g", "e", "d">>), <<>>),
       Rule(ToEol(<<"E", "n", "t", "r", "a", "d", "a", "s", " ", "a", "n", "t", "e", "r", "i", "o", "r", "e", "s">>), <<>>),
       Rule(ToEol(<<"B", "u", "s", "c", "a", "r", ":">>), <<>>),
       Rule(ToEol(<<"R", "e", "l", "e", "v", "a", "n", "t", "e">>), <<>>),
       Rule(ToEol(<<"C", "o", "m", "e", "n", "t", "a", "r", "i", "o", "s", " ", "r", "e", "c", "i", "e", "n", "t", "e", "s">>), <<>>),
       Rule(ToEol(<<"A", "r", "c", "h", "i", "v", "o", "s">>), <<>>),
       Rule(ToEol(<<"M", "e", "t", "a">>), <<>>),
       Rule(ToEol(<<"A", "c", "e", "r", "c", "a", " ", "d", "e", " ", "n", "o", "s", "o", "t", "r", "o", "s">>), <<>>),
       Rule(ToEol(<<"F", "a", "c", "e", "b", "o", "o", "k">>), <<>>),
       Rule(ToEol(<<"Y", "o", "u", "T", "u", "b", "e">>), <<>>),
       Rule(ToEol(<<"T", "w", "i", "t", "t", "e", "r">>), <<>>),
       Rule(ToEol(<<"S", "o", "u", "n", "d", "C", "l", "o", "u", "d">>), <<>>),
       Rule(TwoToEol(<<"P", "o", "s", "t", "e", "d", " ", "o", "n">>, <<"b", "y">>), <<>>),
       Rule(ToEol(<<"P", "o", "s", "t", "e", "d", " ", "i", "n">>), <<>>),
       Rule(ToEol(<<"P", "o", "s", "t", "e", "d", " ", "b", "y">>), <<>>),
       Rule(TwoDotAll(<<"i", "f", "r", "a", "m", "e">>, <<"s", "r", "c", "=">>), <<>>),
       Rule(SpanOpen, <<>>),
       Rule(Lit(<<"<", "/", "s", "p", "a", "n", ">">>), <<>>),
       Rule(EmptySpanPara, <<>>),
       Rule(EmptyPara, <<>>),
       Rule(Lit(<<"<", "b", ">">>), <<>>),
       Rule(Lit(<<"<", "/", "b", ">">>), <<>>),
       Rule(Lit(<<"<", "p", ">">>), <<"\n">>),
       Rule(Lit(<<"<", "/", "p", ">">>), <<>>),
       Rule(BlankLines, <<"\n", "\n">>),
       Rule(LineTrim, <<>>)
    >>

\* the text after the first k rules have been applied in order
RECURSIVE ApplyRules(_, _, _)
ApplyRules(rules, k, t) ==
    IF k = 0 THEN t
    ELSE \* u is the text after rule k - 1, bound to its value
         CHOOSE r \in {ReSub(rules[k].pat, rules[k].repl, u) :
                           u \in {ApplyRules(rules, k - 1, t)}} : TRUE

_clean_text(t) ==
    IF t = None \/ t = <<>> THEN <<>>                       \* if not text: return ""
    ELSE Strip(ApplyRules(CleanRules, Len(CleanRules), t))

\* raw texts: concatenations of a few fragments
Fragments ==
    {<<"H", "o", "l", "a", "\n">>,
     <<"\n", "f", "i", "n">>,
     <<" ">>,
     <<"\n">>,
     <<"&", "a", "m", "p", ";">>,
     <<"n", "b", "s", "p", ";">>,
     <<"P", "o", "s", "t", "e", "d", " ", "i", "n">>,
     <<"S", "h", "a", "r", "e", " ", "t", "h", "i", "s", ":">>,
     <<"<", "p", ">">>}

RECURSIVE Concat(_)
Concat(ss) == IF ss = <<>> THEN <<>> ELSE Head(ss) \o Concat(Tail(ss))

RawTexts == {Concat(fs) : fs \in SeqsUpTo(Fragments, MaxFragments)}

\* a raw text is at hand; the other operations are not in use
InitClean ==
    /\ raw \in RawTexts
    /\ cleaned = <<>>
    /\ recleaned = <<>>
    /\ cpc = "start"
    /\ soup = <<>>
    /\ articles_text = <<>>
    /\ apc = "idle"
    /\ page = <<>>
    /\ title_res = <<>>
    /\ author_res = <<>>
    /\ rpc = "idle"
    /\ year = 0
    /\ month = 0
    /\ pc = "idle"
    /\ response = NoResponse
    /\ article = Unbound
    /\ successful_extractions = 0
    /\ failed_extractions = 0
    /\ total_articles = 0
    /\ period_file = NoFile
    /\ sleeps = 0
    /\ visited = <<>>

\* cleaned = self._clean_text(raw)
Clean ==
    /\ cpc = "start"
    /\ cleaned' = _clean_text(raw)
    /\ cpc' = "once"
    /\ UNCHANGED <<raw, recleaned, archiveVars, resolverVars, mainVars>>

\* recleaned = self._clean_text(cleaned)
CleanAgain ==
    /\ cpc = "once"
    /\ recleaned' = _clean_text(cleaned)
    /\ cpc' = "twice"
    /\ UNCHANGED <<raw, cleaned, archiveVars, resolverVars, mainVars>>

NextClean == Clean \/ CleanAgain

(***************************************************************************)
(* _extract_title and _extract_author                                      *)
(*                                                                         *)
(* A page is the sequence of its elements in document order; an element    *)
(* has a tag, a set of classes, the attributes name and content (None when *)
(* absent) and its get_text().                                             *)
(***************************************************************************)
Elem(tag, classes, name, content, text) ==
    [tag |-> tag, classes |-> classes, name |-> name, content |-> content, text |-> text]

\* a CSS selector: tag ("*" for any), required classes, required name attribute (None for any)
Sel(tag, classes, name) == [tag |-> tag, classes |-> classes, name |-> name]

title_selectors ==
    <<Sel("h1", {"page-title"}, None),
      Sel("h1", {"entry-title"}, None),
      Sel("h1", {"post-title"}, None),
      Sel("h1", {"article-title"}, None),
      Sel("h1", {}, None),
      Sel("title", {}, None)>>

author_selectors ==
    <<Sel("span", {"author", "vcard"}, None),
      Sel("*", {"entry-author"}, None),
      Sel("*", {"post-author"}, None),
      Sel("*", {"article-author"}, None),
      Sel("*", {"author"}, None),
      Sel("meta", {}, <<"a", "u", "t", "h", "o", "r">>)>>

NoTitleFound  == <<"N", "o", " ", "t", "i", "t", "l", "e", " ", "f", "o", "u", "n", "d">>
NoAuthorFound == <<"N", "o", " ", "a", "u", "t", "h", "o", "r", " ", "f", "o", "u", "n", "d">>

Matches(e, sel) ==
    /\ sel.tag = "*" \/ e.tag = sel.tag
    /\ sel.classes \subseteq e.classes
    /\ sel.name = None \/ e.name = sel.name

\* the value None where an element is expected
NoElem == Elem("None", {}, None, None, <<>>)

\* soup.select_one(selector): the first matching element in document order, or None
select_one(doc, sel) ==
    LET hits == {k \in 1..Len(doc) : Matches(doc[k], sel)}
    IN  IF hits = {} THEN NoElem ELSE doc[Min(hits)]

\* the for loop of _extract_title from the k-th selector on
RECURSIVE TitleLoop(_, _)
TitleLoop(doc, k) ==
    IF k > Len(title_selectors) THEN NoTitleFound
    ELSE LET title_elem == select_one(doc, title_selectors[k])
         IN  IF title_elem # NoElem /\ Strip(title_elem.text) # <<>>
             THEN Strip(title_elem.text)
             ELSE TitleLoop(doc, k + 1)

_extract_title(doc) == TitleLoop(doc, 1)

\* the for loop of _extract_author from the k-th selector on
RECURSIVE AuthorLoop(_, _)
AuthorLoop(doc, k) ==
    IF k > Len(author_selectors) THEN NoAuthorFound
    ELSE LET author_elem == select_one(doc, author_selectors[k])
         IN  IF author_elem # NoElem
             THEN IF author_elem.content # None /\ author_elem.content # <<>>
                  THEN author_elem.content
                  ELSE Strip(author_elem.text)
             ELSE AuthorLoop(doc, k + 1)

_extract_author(doc) == AuthorLoop(doc, 1)

Elements ==
    {Elem("h1", {"page-title"}, None, None, <<" ">>),
     Elem("h1", {"entry-title"}, None, None, <<"N", "o", "t", "a">>),
     Elem("h1", {}, None, None, <<"U", "n", "o", " ">>),
     Elem("title", {}, None, None, <<"W", "e", "b">>),
     Elem("span", {"author", "vcard"}, None, None, <<>>),
     Elem("div", {"entry-author"}, None, None, <<"A", "n", "a", " ">>),
     Elem("span", {"author"}, None, None, <<" ">>),
     Elem("meta", {}, <<"a", "u", "t", "h", "o", "r">>, <<"E", "v", "a">>, <<>>),
     Elem("meta", {}, <<"a", "u", "t", "h", "o", "r">>, <<>>, <<>>)}

\* a page is parsed; the other operations are not in use
InitResolver ==
    /\ page \in SeqsUpTo(Elements, MaxElements)
    /\ title_res = <<>>
    /\ author_res = <<>>
    /\ rpc = "start"
    /\ soup = <<>>
    /\ articles_text = <<>>
    /\ apc = "idle"
    /\ raw = <<>>
    /\ cleaned = <<>>
    /\ recleaned = <<>>
    /\ cpc = "idle"
    /\ year = 0
    /\ month = 0
    /\ pc = "idle"
    /\ response = NoResponse
    /\ article = Unbound
    /\ successful_extractions = 0
    /\ failed_extractions = 0
    /\ total_articles = 0
    /\ period_file = NoFile
    /\ sleeps = 0
    /\ visited = <<>>

ExtractTitle ==
    /\ rpc = "start"
    /\ title_res' = _extract_title(page)
    /\ rpc' = "title"
    /\ UNCHANGED <<page, author_res, archiveVars, cleanVars, mainVars>>

ExtractAuthor ==
    /\ rpc = "title"
    /\ author_res' = _extract_author(page)
    /\ rpc' = "author"
    /\ UNCHANGED <<page, title_res, archiveVars, cleanVars, mainVars>>

NextResolver == ExtractTitle \/ ExtractAuthor

(***************************************************************************)
(* extract_from_unam_global, save_to_txt and main                          *)
(***************************************************************************)
start_year == 2020
end_year   == 2023

\* the archive pages the source serves in the model
OneArticle ==
    [title |-> <<"N", "o", "t", "a">>, author |-> <<"A", "n", "a">>, date |-> None,
     cats |-> None, content |-> <<"t", "e", "x", "t", "o">>]

ServedSoups == {<<>>, <<OneArticle>>}

\* what session.get, raise_for_status and BeautifulSoup do for one period:
\* the page, or the exception one of them raises
Outcomes ==
    {[kind |-> "ok", soup |-> s] : s \in ServedSoups}
    \cup {[kind |-> k, soup |-> <<>>] : k \in {"ConnectionError", "HTTPError", "ParseError"}}

\* f"https://unamglobal.unam.mx/{year:04d}/{month:02d}/"
BaseUrl(y, m) == <<"https://unamglobal.unam.mx/", y, m>>

\* extract_from_unam_global with an except clause that catches the request
\* exceptions only: a parse failure escapes
extract_from_unam_global_NarrowExcept(y, m, out, now) ==
    IF out.kind = "ok"
    THEN LET articles_content == _extract_articles_from_archive(out.soup)
             content == IF JoinedNonBlank(articles_content) THEN articles_content ELSE <<>>
         IN  [value |-> [content |-> content,
                         word_count |-> JoinedWords(content),
                         extraction_date |-> now],
              raised |-> "none"]
    ELSE IF out.kind = "ParseError"
    THEN [value |-> [extraction_date |-> now], raised |-> "ParseError"]
    ELSE [value |-> [url |-> BaseUrl(y, m),
                     error |-> out.kind,
                     extraction_date |-> now],
          raised |-> "none"]

\* the dict the method returns and the exception that escapes it ("none" when it
\* returns); now is datetime.now()
extract_from_unam_global(y, m, out, now) ==
    IF out.kind = "ok"
    THEN LET articles_content == _extract_articles_from_archive(out.soup)
             content == IF JoinedNonBlank(articles_content) THEN articles_content ELSE <<>>
         IN  [value |-> [content |-> content,
                         word_count |-> JoinedWords(content),
                         extraction_date |-> now],
              raised |-> "none"]
    ELSE \* except Exception as e
         [value |-> [url |-> BaseUrl(y, m),
                     error |-> out.kind,
                     extraction_date |-> now],
          raised |-> "none"]

\* what save_to_txt leaves on disk and the exception it raises ("none" when it returns);
\* io is "ok" or the exception open() raises
save_to_txt(art, y, m, io) ==
    IF io # "ok" THEN [file |-> NoFile, raised |-> io]
    ELSE IF "error" \in DOMAIN art
    THEN \* article_count is unbound when logger.info formats it
         [file |-> [name |-> <<m, y>>, error_line |-> art.error, content |-> <<>>],
          raised |-> "UnboundLocalError"]
    ELSE [file |-> [name |-> <<m, y>>, error_line |-> "", content |-> art.content],
          raised |-> "none"]

IoOutcomes == {"ok", "OSError"}

\* the (year, month) pairs of the two nested for loops, in loop order
TotalMonths == (end_year - start_year + 1) * 12

PeriodAt(n) == <<start_year + ((n - 1) \div 12), ((n - 1) % 12) + 1>>

Periods == [n \in 1..TotalMonths |-> PeriodAt(n)]

\* main has set its counters and enters the loops; the other operations are not in use
InitMain ==
    /\ year = start_year
    /\ month = 1
    /\ pc = "extract"
    /\ response = NoResponse
    /\ article = Unbound
    /\ successful_extractions = 0
    /\ failed_extractions = 0
    /\ total_articles = 0
    /\ period_file = NoFile
    /\ sleeps = 0
    /\ visited = <<>>
    /\ soup = <<>>
    /\ articles_text = <<>>
    /\ apc = "idle"
    /\ raw = <<>>
    /\ cleaned = <<>>
    /\ recleaned = <<>>
    /\ cpc = "idle"
    /\ page = <<>>
    /\ title_res = <<>>
    /\ author_res = <<>>
    /\ rpc = "idle"

\* article = extractor.extract_from_unam_global(year=year, month=month);
\* an exception that escapes the call lands in except Exception
MainExtract ==
    /\ pc = "extract"
    /\ \E out \in Outcomes :
          LET r == extract_from_unam_global(year, month, out, sleeps)
          IN  /\ response' = out
              /\ IF r.raised = "none"
                 THEN /\ article' = r.value
                      /\ pc' = "branch"
                      /\ UNCHANGED failed_extractions
                 ELSE /\ failed_extractions' = failed_extractions + 1
                      /\ pc' = "sleep"
                      /\ UNCHANGED article
    /\ visited' = Append(visited, <<year, month>>)
    /\ UNCHANGED <<year, month, successful_extractions, total_articles,
                   period_file, sleeps, archiveVars, cleanVars, resolverVars>>

\* MainSave with the success counted before the file is saved
MainSave_CountFirst ==
    /\ pc = "branch"
    /\ "error" \notin DOMAIN article
    /\ \E io \in IoOutcomes :
          LET saved == save_to_txt(article, year, month, io)
          IN  /\ period_file' = saved.file
              /\ successful_extractions' = successful_extractions + 1
              /\ total_articles' = total_articles + article.word_count
              /\ IF saved.raised = "none"
                 THEN UNCHANGED failed_extractions
                 ELSE failed_extractions' = failed_extractions + 1
    /\ pc' = "sleep"
    /\ UNCHANGED <<year, month, response, article, sleeps, visited,
                   archiveVars, cleanVars, resolverVars>>

\* if 'error' not in article: save, then count the success;
\* an exception of save_to_txt lands in except Exception
MainSave ==
    /\ pc = "branch"
    /\ "error" \notin DOMAIN article
    /\ \E io \in IoOutcomes :
          LET saved == save_to_txt(article, year, month, io)
          IN  /\ period_file' = saved.file
              /\ IF saved.raised = "none"
                 THEN /\ successful_extractions' = successful_extractions + 1
                      /\ total_articles' = total_articles + article.word_count
                      /\ UNCHANGED failed_extractions
                 ELSE /\ failed_extractions' = failed_extractions + 1
                      /\ UNCHANGED <<successful_extractions, total_articles>>
    /\ pc' = "sleep"
    /\ UNCHANGED <<year, month, response, article, sleeps, visited,
                   archiveVars, cleanVars, resolverVars>>

\* else: print the error and count the failure
MainFailed ==
    /\ pc = "branch"
    /\ "error" \in DOMAIN article
    /\ failed_extractions' = failed_extractions + 1
    /\ pc' = "sleep"
    /\ UNCHANGED <<year, month, response, article, successful_extractions,
                   total_articles, period_file, sleeps, visited,
                   archiveVars, cleanVars, resolverVars>>

\* time.sleep(1), then the next month, the next year, or the end of the loops
\* (period_file then stands for the next period's path, where nothing is written yet)
MainSleep ==
    /\ pc = "sleep"
    /\ sleeps' = sleeps + 1
    /\ IF month < 12
       THEN /\ month' = month + 1
            /\ year' = year
            /\ pc' = "extract"
       ELSE IF year < end_year
       THEN /\ month' = 1
            /\ year' = year + 1
            /\ pc' = "extract"
       ELSE /\ UNCHANGED <<year, month>>
            /\ pc' = "summary"
    /\ period_file' = IF pc' = "extract" THEN NoFile ELSE period_file
    /\ UNCHANGED <<response, article, successful_extractions, failed_extractions,
                   total_articles, visited, archiveVars, cleanVars, resolverVars>>

\* the summary prints
MainSummary ==
    /\ pc = "summary"
    /\ pc' = "done"
    /\ UNCHANGED <<year, month, response, article, successful_extractions,
                   failed_extractions, total_articles, period_file, sleeps, visited,
                   archiveVars, cleanVars, resolverVars>>

NextMain == MainExtract \/ MainSave \/ MainFailed \/ MainSleep \/ MainSummary

(***************************************************************************)
(* Specifications                                                          *)
(***************************************************************************)
SpecArchive  == InitArchive /\ [][NextArchive]_vars

SpecClean    == InitClean /\ [][NextClean]_vars

SpecResolver == InitResolver /\ [][NextResolver]_vars

SpecMain     == InitMain /\ [][NextMain]_vars

(***************************************************************************)
(* Properties of _extract_articles_from_archive (SpecArchive)              *)
(***************************************************************************)
\* the indices of the record-boundary markers, in output order
RECURSIVE MarkerIndices(_)
MarkerIndices(pieces) ==
    IF pieces = <<>> THEN <<>>
    ELSE IF Head(pieces).kind = "marker"
         THEN <<Head(pieces).i>> \o MarkerIndices(Tail(pieces))
         ELSE MarkerIndices(Tail(pieces))

\* the texts of the pieces of one kind, in output order
RECURSIVE TextsOfKind(_, _)
TextsOfKind(pieces, kind) ==
    IF pieces = <<>> THEN <<>>
    ELSE IF Head(pieces).kind = kind
         THEN <<Head(pieces).text>> \o TextsOfKind(Tail(pieces), kind)
         ELSE TextsOfKind(Tail(pieces), kind)

\* the positions of the <article> elements that have a title element, ascending
RECURSIVE TitledFrom(_, _)
TitledFrom(s, k) ==
    IF k > Len(s) THEN <<>>
    ELSE IF s[k].title # None THEN <<k>> \o TitledFrom(s, k + 1)
         ELSE TitledFrom(s, k + 1)

\* the trimmed values of one field over the titled <article> elements that have it
RECURSIVE FieldFrom(_, _, _)
FieldFrom(s, field, k) ==
    IF k > Len(s) THEN <<>>
    ELSE IF s[k].title # None /\ s[k][field] # None
         THEN <<Strip(s[k][field])>> \o FieldFrom(s, field, k + 1)
         ELSE FieldFrom(s, field, k + 1)

KindField ==
    [marker |-> "title", author |-> "author", date |-> "date",
     cats |-> "cats", content |-> "content"]

\* C1: the record-boundary markers carry the indices 1, 2, ..., n in document
\* order, n the number of emitted records, however many containers were skipped.
C1_MarkersContiguous ==
    apc = "done" =>
        LET mi == MarkerIndices(articles_text)
        IN  \A j \in 1..Len(mi) : mi[j] = j

\* C2: the title written into every record-boundary marker is not the empty string.
C2_TitleNonEmpty ==
    apc = "done" =>
        \A k \in 1..Len(articles_text) :
            articles_text[k].kind = "marker" => articles_text[k].text # <<>>

\* the content of an <article> is absent, or empty or blank once normalized
EmptyAfterNormalization(content) ==
    \/ content = None
    \/ Strip(_clean_text(content)) = <<>>

\* C3: a container whose title matched but whose normalized content is empty (or
\* that has no content element) is dropped: nothing is emitted for it, so there
\* are no more markers and no more separators than containers with a title
\* and non-empty normalized content.
C3_EmptyContentDropped ==
    apc = "done" =>
        LET kept == {k \in 1..Len(soup) :
                        soup[k].title # None /\ ~EmptyAfterNormalization(soup[k].content)}
        IN  /\ CountMarkers(articles_text) <= Cardinality(kept)
            /\ Len(TextsOfKind(articles_text, "separator")) <= Cardinality(kept)

\* C4: a container without a title element contributes nothing to the output:
\* the markers are those of the titled containers in document order, every kind
\* of line holds exactly the values of the titled containers in document order,
\* and there is one content-section marker and one separator per titled container.
C4_UntitledSkipped ==
    apc = "done" =>
        /\ MarkerIndices(articles_text) = TitledFrom(soup, 1)
        /\ \A kind \in DOMAIN KindField :
              TextsOfKind(articles_text, kind) = FieldFrom(soup, KindField[kind], 1)
        /\ Len(TextsOfKind(articles_text, "content_marker")) = Len(TitledFrom(soup, 1))
        /\ Len(TextsOfKind(articles_text, "separator")) = Len(TitledFrom(soup, 1))

\* an untitled container with metadata and content sits between two emitted ones
C4_Witness ==
    /\ apc = "done"
    /\ Len(soup) = 3
    /\ soup[1].title # None
    /\ soup[2].title = None /\ soup[2].content # None /\ soup[2].author # None
    /\ soup[3].title # None
    /\ CountMarkers(articles_text) = 2

(***************************************************************************)
(* Properties of _clean_text (SpecClean)                                   *)
(***************************************************************************)
\* the lines of a text: the pieces between newlines
RECURSIVE SplitLines(_)
SplitLines(t) ==
    LET nl == {q \in 1..Len(t) : t[q] = "\n"}
    IN  IF nl = {} THEN <<t>>
        ELSE <<SubSeq(t, 1, Min(nl) - 1)>> \o SplitLines(SubSeq(t, Min(nl) + 1, Len(t)))

RECURSIVE JoinLines(_)
JoinLines(ls) ==
    IF ls = <<>> THEN <<>>
    ELSE IF Len(ls) = 1 THEN ls[1]
    ELSE ls[1] \o <<"\n">> \o JoinLines(Tail(ls))

Paragraphs == {<<"H", "o", "l", "a">>, <<"f", "i", "n">>}

InlineAnchors == {<<"S", "h", "a", "r", "e", " ", "t", "h", "i", "s", ":">>, <<"P", "o", "s", "t", "e", "d", " ", "i", "n">>}

IsAnchorLine(l) == \E a \in InlineAnchors : StartsAt(l, 1, a)

\* paragraph lines and anchor lines only, at least one of each
ParagraphsAndAnchorLines(t) ==
    LET ls == SplitLines(t)
    IN  /\ \E k \in 1..Len(ls) : ls[k] \in Paragraphs
        /\ \A k \in 1..Len(ls) : ls[k] \in Paragraphs \/ IsAnchorLine(ls[k])
        /\ \E k \in 1..Len(ls) : IsAnchorLine(ls[k])

\* C7: boilerplate removal is confined to the anchor's own line: for paragraph
\* lines mixed with lines that start with an inline anchor, every anchor line is
\* removed whole and the paragraph lines, before and after it, are preserved unchanged.
C7_LineAnchoredRemoval ==
    (cpc \in {"once", "twice"} /\ ParagraphsAndAnchorLines(raw)) =>
        cleaned = JoinLines(SelectSeq(SplitLines(raw), LAMBDA l : ~IsAnchorLine(l)))

\* C8: normalization is idempotent: _clean_text(_clean_text(x)) = _clean_text(x).
C8_Idempotent ==
    cpc = "twice" => recleaned = cleaned

(***************************************************************************)
(* Properties of _extract_title and _extract_author (SpecResolver)         *)
(***************************************************************************)
\* the value a candidate extracts from the element it locates: the content
\* attribute when it has one, else the trimmed text
ExtractedValue(e) ==
    IF e.content # None /\ e.content # <<>> THEN e.content ELSE Strip(e.text)

\* the first candidate, in list order, that locates an element with a non-empty
\* trimmed value; the fallback sentinel when there is none
RECURSIVE FirstNonEmpty(_, _, _, _)
FirstNonEmpty(doc, selectors, k, fallback) ==
    IF k > Len(selectors) THEN fallback
    ELSE LET e == select_one(doc, selectors[k])
         IN  IF e # NoElem /\ Strip(ExtractedValue(e)) # <<>>
             THEN ExtractedValue(e)
             ELSE FirstNonEmpty(doc, selectors, k + 1, fallback)

\* C9: both resolvers return the value of the first candidate that locates an
\* element with a non-empty trimmed value, pass over a candidate whose element
\* is empty, and fall back to the sentinel, so the result is never empty.
C9_FirstNonEmptyCandidate ==
    /\ rpc \in {"title", "author"} =>
          /\ title_res = FirstNonEmpty(page, title_selectors, 1, NoTitleFound)
          /\ title_res # <<>>
    /\ rpc = "author" =>
          /\ author_res = FirstNonEmpty(page, author_selectors, 1, NoAuthorFound)
          /\ author_res # <<>>

(***************************************************************************)
(* Properties of extract_from_unam_global, save_to_txt and main (SpecMain) *)
(***************************************************************************)
ContentShape(d) ==
    /\ {"content", "word_count", "extraction_date"} \subseteq DOMAIN d
    /\ "error" \notin DOMAIN d

ErrorShape(d) ==
    /\ {"error", "extraction_date"} \subseteq DOMAIN d
    /\ "content" \notin DOMAIN d
    /\ "word_count" \notin DOMAIN d
    /\ d.error # ""

\* C5: whatever the fetch and parse steps do, the call returns (main reaches the
\* statement after it) and the result has exactly one of the two shapes, with
\* extraction_date in both; a fetch or parse failure yields the error shape.
C5_ResultExclusive ==
    [][pc = "extract" =>
          /\ pc' = "branch"
          /\ IF response'.kind = "ok" THEN ContentShape(article') ELSE ErrorShape(article')
      ]_vars

\* a parse failure has been turned into the error shape
C5_Witness ==
    /\ pc = "branch"
    /\ response.kind = "ParseError"
    /\ ErrorShape(article)
    /\ article.error = "ParseError"

\* C6: every processed period has its output file: the line "Error: <message>"
\* for the error variant, the aggregate content for the content variant.
C6_EveryPeriodHasFile ==
    pc = "sleep" =>
        IF "error" \in DOMAIN article
        THEN /\ period_file.name = <<month, year>>
             /\ period_file.error_line = article.error
        ELSE period_file # NoFile =>
                /\ period_file.name = <<month, year>>
                /\ period_file.content = article.content

\* the number of periods whose iteration, delay included, is complete
Completed ==
    CASE pc = "extract" -> Len(visited)
      [] pc = "branch"  -> Len(visited) - 1
      [] pc = "sleep"   -> Len(visited) - 1
      [] OTHER          -> Len(visited)

\* C10: main visits the periods once each in ascending order and goes on to the
\* next one whatever the current one did; after every iteration the successes
\* and failures add up to the periods processed, the delay is taken after every
\* iteration, and the run ends with the two counts adding up to 48.
C10_BatchCounts ==
    /\ visited = SubSeq(Periods, 1, Len(visited))
    /\ pc \in {"branch", "sleep"} => visited[Len(visited)] = <<year, month>>
    /\ pc = "extract" => PeriodAt(Len(visited) + 1) = <<year, month>>
    /\ pc \in {"extract", "branch"} =>
          successful_extractions + failed_extractions = Completed
    /\ pc = "sleep" =>
          successful_extractions + failed_extractions = Completed + 1
    /\ sleeps = Completed
    /\ pc \in {"summary", "done"} =>
          /\ successful_extractions + failed_extractions = 48
          /\ sleeps = 48
          /\ Len(visited) = 48
    /\ pc # "done" => ENABLED NextMain

\* the run has ended after failures of every kind and at least one success
C10_Witness ==
    /\ pc = "done"
    /\ successful_extractions > 0
    /\ failed_extractions > 1
    /\ period_file = NoFile
    /\ "error" \in DOMAIN article

====
